---- MODULE Spec2Model ----
(***************************************************************************)
(* Model of src/src/sync.rs (glium): SyncFence, the handle applications    *)
(* hold, and SyncFencePrototype, the marker as built on the commands       *)
(* queue.  Application threads never call the backend; they hand closures  *)
(* to the context's executor with exec(), and read replies from one-shot   *)
(* mpsc channels.                                                          *)
(***************************************************************************)
EXTENDS Integers, Sequences, FiniteSets

\* ------------------------------------------------------------------ bounds
MaxFences == 2

\* --------------------------------------------------------------- constants
Threads == {"A", "B"}
NoThread == "none"
Executor == "executor"

\* Option::None of the id slots; live GLsync values are 1, 2, ...
None == 0

Ids == 1..MaxFences

\* GlVersion(3, 2)
MinVersion == <<3, 2>>

\* the contexts the fences are exercised on: (version, gl_arb_sync), one
\* without support, one supported by its extension, one by its version
Contexts == {<<<<3, 1>>, FALSE>>, <<<<3, 1>>, TRUE>>, <<<<3, 2>>, FALSE>>}

\* the contexts creation alone is exercised on: every (major, minor) around
\* 3.2, with and without the extension
MaxMajor == 4
MaxMinor == 3
GateContexts == ((2..MaxMajor) \X (0..MaxMinor)) \X BOOLEAN

\* values ClientWaitSync can return (a GLenum); OTHER stands for any value
\* that is none of the four named ones
ALREADY_SIGNALED == "ALREADY_SIGNALED"
CONDITION_SATISFIED == "CONDITION_SATISFIED"
TIMEOUT_EXPIRED == "TIMEOUT_EXPIRED"
WAIT_FAILED == "WAIT_FAILED"
ResultCodes == {ALREADY_SIGNALED, CONDITION_SATISFIED, TIMEOUT_EXPIRED, WAIT_FAILED, "OTHER"}
Unset == "unset"

VARIABLES
    version,    \* ctxt.version, fixed for the life of the context
    extension,  \* ctxt.extensions.gl_arb_sync
    pc,         \* per application thread: where it is
    cur,        \* per application thread: the fence its wait() is on
    chan,       \* per application thread: the mpsc channel it will recv() on
    queue,      \* closures handed to exec() and not yet started
    ex,         \* the closure the executor is running, and what is left of it
    nextId,     \* number of FenceSync calls the backend has served
    newCalls,   \* number of SyncFencePrototype::new_if_supported calls made
    requests,   \* number of creation closures submitted
    devlog,     \* per GLsync: the backend calls made on it, in order
    proto,      \* per GLsync: the SyncFencePrototype that wrapped it
    fence,      \* per GLsync: the SyncFence that wrapped it
    outcome,    \* per GLsync: how wait() on its SyncFence ended
    noneRets,   \* number of creations that returned None to their caller
    dropSubs,   \* per GLsync: closures submitted by Drop for SyncFence
    deadline    \* per GLsync: the timeout passed to ClientWaitSync on it

vars == <<version, extension, pc, cur, chan, queue, ex, nextId, newCalls,
          requests, devlog, proto, fence, outcome, noneRets, dropSubs, deadline>>

\* ---------------------------------------------------------- pure functions

\* GlVersion(a, b) < GlVersion(c, d): derived ordering of a tuple struct
VersionLess(v, w) == v[1] < w[1] \/ (v[1] = w[1] /\ v[2] < w[2])

\* SyncFencePrototype::new_if_supported: the id slot of the prototype it
\* returns (None for "not supported") and the FenceSync calls it made
ProtoNewIfSupportedOr(v, e, n) ==
    IF VersionLess(v, MinVersion) \/ ~e
    THEN [slot |-> None, issued |-> 0]
    ELSE [slot |-> n + 1, issued |-> 1]

ProtoNewIfSupportedUngated(v, e, n) == [slot |-> n + 1, issued |-> 1]

ProtoNewIfSupported(v, e, n) ==
    IF VersionLess(v, MinVersion) /\ ~e
    THEN [slot |-> None, issued |-> 0]
    ELSE [slot |-> n + 1, issued |-> 1]

\* SyncFencePrototype::new: FenceSync with no capability check
ProtoNewGated(v, e, n) ==
    IF VersionLess(v, MinVersion) /\ ~e
    THEN [slot |-> None, issued |-> 0]
    ELSE [slot |-> n + 1, issued |-> 1]

ProtoNew(v, e, n) == [slot |-> n + 1, issued |-> 1]

\* Option::unwrap in SyncFence::new
Unwrap(slot) == IF slot = None THEN "panic" ELSE "ok"

\* the match in SyncFence::wait
WaitMatchTimeoutOk(result) ==
    IF result \in {ALREADY_SIGNALED, CONDITION_SATISFIED, TIMEOUT_EXPIRED} THEN "ok" ELSE "panic"

WaitMatch(result) ==
    IF result \in {ALREADY_SIGNALED, CONDITION_SATISFIED} THEN "ok" ELSE "panic"

\* Drop for SyncFencePrototype: assert!(self.id.is_none())
ProtoDropSilent(slot) == "consumed"
ProtoDropInverted(slot) == IF slot = None THEN "assert_failed" ELSE "consumed"

ProtoDrop(slot) == IF slot = None THEN "consumed" ELSE "assert_failed"

\* ------------------------------------------------- 64-bit unsigned integers
\* a GLuint64 as eight base-1000 digits, least significant first

U64One == <<1, 0, 0, 0, 0, 0, 0, 0>>

RECURSIVE MulFrom(_, _, _, _)
MulFrom(x, f, k, carry) ==
    IF k > Len(x) THEN <<>>
    ELSE LET p == x[k] * f + carry IN <<p % 1000>> \o MulFrom(x, f, k + 1, p \div 1000)

\* x * f without reduction, f a small factor
MulSmall(x, f) == MulFrom(x, f, 1, 0)

RECURSIVE LessFrom(_, _, _)
LessFrom(x, y, k) ==
    IF k = 0 THEN FALSE
    ELSE IF x[k] # y[k] THEN x[k] < y[k] ELSE LessFrom(x, y, k - 1)

U64Less(x, y) == LessFrom(x, y, Len(x))

RECURSIVE SubFrom(_, _, _, _)
SubFrom(x, y, k, borrow) ==
    IF k > Len(x) THEN <<>>
    ELSE LET d == x[k] - y[k] - borrow IN
         <<(d + 1000) % 1000>> \o SubFrom(x, y, k + 1, IF d < 0 THEN 1 ELSE 0)

\* 2^63 = 2^21 * 2^21 * 2^21, and 2^64
Two63 == MulSmall(MulSmall(MulSmall(U64One, 2097152), 2097152), 2097152)
Two64 == MulSmall(Two63, 2)

\* reduction modulo 2^64
RECURSIVE WrapU64(_)
WrapU64(x) == IF U64Less(x, Two64) THEN x ELSE WrapU64(SubFrom(x, Two64, 1, 0))

\* a product of u64 factors, left to right, each multiplication modulo 2^64
RECURSIVE ProductU64(_, _)
ProductU64(fs, k) == IF k = 0 THEN U64One ELSE WrapU64(MulSmall(ProductU64(fs, k - 1), fs[k]))

\* the timeout expression of SyncFence::wait
WaitDeadlineFactorsExtra == <<365, 24, 3600, 1000, 1000, 1000, 1000>>

WaitDeadlineFactors == <<365, 24, 3600, 1000, 1000, 1000>>

\* the timeout expression of SyncFencePrototype::wait_and_drop
WaitAndDropDeadlineFactors == <<365, 24, 3600, 1000, 1000, 1000>>

\* the timeout ClientWaitSync is given by a closure of the given kind
WaitDeadline == ProductU64(WaitDeadlineFactors, Len(WaitDeadlineFactors))

WaitAndDropDeadline == ProductU64(WaitAndDropDeadlineFactors, Len(WaitAndDropDeadlineFactors))

PollDeadline(kind) == IF kind = "inplace" THEN WaitAndDropDeadline ELSE WaitDeadline

\* ------------------------------------------------------------------ closures
Idle == [kind |-> "idle", from |-> NoThread, id |-> None, steps |-> <<>>, result |-> Unset]

Closure(k, t, i, s) == [kind |-> k, from |-> t, id |-> i, steps |-> s, result |-> Unset]

\* the closure of SyncFence::new_if_supported
CreateSteps == <<"new", "send">>

\* the closure of SyncFence::wait
WaitStepsSendFirst == <<"send", "poll", "delete">>
WaitStepsNoDelete == <<"poll", "send">>
WaitStepsTwoPolls == <<"poll", "poll", "send", "delete">>
WaitStepsNoSend == <<"poll", "delete">>
WaitStepsDeleteFirst == <<"delete", "poll", "send">>
WaitStepsDeleteBeforeSend == <<"poll", "delete", "send">>

WaitSteps == <<"poll", "send", "delete">>

\* the body of SyncFencePrototype::wait_and_drop
WaitAndDropSteps == <<"poll", "delete">>

\* Option::take: the value handed out and what the slot holds afterwards
TakeCopy(slot) == [value |-> slot, left |-> slot]

Take(slot) == [value |-> slot, left |-> None]

\* the closures Drop for SyncFence submits for an id slot
DropSubmissionPolls(slot) ==
    IF slot = None THEN <<>> ELSE <<Closure("drop", NoThread, slot, <<"poll", "delete">>)>>

DropSubmission(slot) ==
    IF slot = None THEN <<>> ELSE <<Closure("drop", NoThread, slot, <<"delete">>)>>

\* context.exec(closure): the closures join the executor's FIFO queue and the
\* caller goes on without waiting for them to run
Exec(q, closures) == q \o closures

\* ---------------------------------------------------------------------- Init
Init ==
    /\ \E c \in Contexts : version = c[1] /\ extension = c[2]
    /\ pc = [t \in Threads |-> "idle"]
    /\ cur = [t \in Threads |-> None]
    /\ chan = [t \in Threads |-> <<>>]
    /\ queue = <<>>
    /\ ex = Idle
    /\ nextId = 0
    /\ newCalls = 0
    /\ requests = 0
    /\ devlog = [i \in Ids |-> <<>>]
    /\ proto = [i \in Ids |-> [state |-> "unborn", via |-> "none"]]
    /\ fence = [i \in Ids |-> [state |-> "unborn", owner |-> NoThread, slot |-> None, moved |-> FALSE]]
    /\ outcome = [i \in Ids |-> "none"]
    /\ noneRets = 0
    /\ dropSubs = [i \in Ids |-> 0]
    /\ deadline = [i \in Ids |-> <<>>]

\* ------------------------------------------------------ application threads

\* SyncFence::new_if_supported, up to the recv(): channel, exec(closure)
NewIfSupported(t) ==
    /\ pc[t] = "idle"
    /\ requests < MaxFences
    /\ queue' = Exec(queue, <<Closure("create", t, None, CreateSteps)>>)
    /\ pc' = [pc EXCEPT ![t] = "new_recv"]
    /\ requests' = requests + 1
    /\ UNCHANGED <<deadline, version, extension, cur, chan, ex, nextId, newCalls, devlog,
                   proto, fence, outcome, noneRets, dropSubs>>

\* SyncFencePrototype::into_sync_fence: the prototype's slot is taken, the
\* prototype is dropped at the end of the call, the SyncFence holds the id
IntoSyncFence(t, i) ==
    LET tk == Take(i) IN
    /\ proto' = [proto EXCEPT ![i].state = ProtoDrop(tk.left)]
    /\ fence' = [fence EXCEPT ![i] = [state |-> "held", owner |-> t,
                                       slot |-> tk.value, moved |-> FALSE]]

\* SyncFence::new_if_supported from the recv() on: rx.recv().unwrap().map(..)
NewRecv(t) ==
    /\ pc[t] = "new_recv"
    /\ chan[t] # <<>>
    /\ LET m == Head(chan[t]) IN
        /\ chan' = [chan EXCEPT ![t] = Tail(chan[t])]
        /\ IF m.slot = None
           THEN /\ noneRets' = noneRets + 1
                /\ UNCHANGED <<proto, fence>>
           ELSE /\ UNCHANGED noneRets
                /\ IntoSyncFence(t, m.slot)
    /\ pc' = [pc EXCEPT ![t] = "idle"]
    /\ UNCHANGED <<deadline, version, extension, cur, queue, ex, nextId, newCalls, requests,
                   devlog, outcome, dropSubs>>

\* a user of the prototype API on an application thread: the prototype is
\* built on the commands queue and sent to the client
ProtoRequest(t) ==
    /\ pc[t] = "idle"
    /\ requests < MaxFences
    /\ queue' = Exec(queue, <<Closure("proto", t, None, CreateSteps)>>)
    /\ pc' = [pc EXCEPT ![t] = "proto_recv"]
    /\ requests' = requests + 1
    /\ UNCHANGED <<deadline, version, extension, cur, chan, ex, nextId, newCalls, devlog,
                   proto, fence, outcome, noneRets, dropSubs>>

\* the client either turns the prototype it received into a fence or lets it
\* go out of scope, which runs Drop for SyncFencePrototype on a present id
ProtoRecv(t) ==
    /\ pc[t] = "proto_recv"
    /\ chan[t] # <<>>
    /\ LET m == Head(chan[t]) IN
        /\ chan' = [chan EXCEPT ![t] = Tail(chan[t])]
        /\ IF m.slot = None
           THEN /\ noneRets' = noneRets + 1
                /\ pc' = [pc EXCEPT ![t] = "idle"]
                /\ UNCHANGED <<proto, fence>>
           ELSE /\ UNCHANGED noneRets
                /\ \/ /\ IntoSyncFence(t, m.slot)
                      /\ pc' = [pc EXCEPT ![t] = "idle"]
                   \/ /\ proto' = [proto EXCEPT ![m.slot].state = ProtoDrop(m.slot)]
                      /\ pc' = [pc EXCEPT ![t] =
                                  IF ProtoDrop(m.slot) = "assert_failed"
                                  THEN "panicked" ELSE "idle"]
                      /\ UNCHANGED fence
    /\ UNCHANGED <<deadline, version, extension, cur, queue, ex, nextId, newCalls, requests,
                   devlog, outcome, dropSubs>>

\* code running on the commands queue that builds a prototype and consumes it
\* in place with wait_and_drop
WaitAndDropRequest(t) ==
    /\ pc[t] = "idle"
    /\ requests < MaxFences
    /\ queue' = Exec(queue, <<Closure("inplace", NoThread, None, <<"new">> \o WaitAndDropSteps)>>)
    /\ requests' = requests + 1
    /\ UNCHANGED <<deadline, version, extension, pc, cur, chan, ex, nextId, newCalls, devlog,
                   proto, fence, outcome, noneRets, dropSubs>>

\* SyncFence::wait, up to the recv(): take the id, channel, exec(closure)
Wait(t, i) ==
    /\ pc[t] = "idle"
    /\ fence[i].state = "held"
    /\ fence[i].owner = t
    /\ LET tk == Take(fence[i].slot) IN
        /\ fence' = [fence EXCEPT ![i].state = "waiting", ![i].slot = tk.left]
        /\ queue' = Exec(queue, <<Closure("wait", t, tk.value, WaitSteps)>>)
    /\ pc' = [pc EXCEPT ![t] = "wait_recv"]
    /\ cur' = [cur EXCEPT ![t] = i]
    /\ UNCHANGED <<deadline, version, extension, chan, ex, nextId, newCalls, requests, devlog,
                   proto, outcome, noneRets, dropSubs>>

\* SyncFence::wait from the recv() on: the match, then self goes out of scope
\* (also when the match panics and the stack unwinds) and Drop runs on it
WaitRecv(t) ==
    /\ pc[t] = "wait_recv"
    /\ chan[t] # <<>>
    /\ LET m == Head(chan[t])
           i == cur[t]
           subs == DropSubmission(fence[i].slot) IN
        /\ chan' = [chan EXCEPT ![t] = Tail(chan[t])]
        /\ outcome' = [outcome EXCEPT ![i] = WaitMatch(m.result)]
        /\ pc' = [pc EXCEPT ![t] = IF WaitMatch(m.result) = "ok" THEN "idle" ELSE "panicked"]
        /\ queue' = Exec(queue, subs)
        /\ dropSubs' = [dropSubs EXCEPT ![i] = @ + Len(subs)]
        /\ fence' = [fence EXCEPT ![i].state = "destroyed", ![i].owner = NoThread]
    /\ cur' = [cur EXCEPT ![t] = None]
    /\ UNCHANGED <<deadline, version, extension, ex, nextId, newCalls, requests, devlog,
                   proto, noneRets>>

\* Drop for SyncFence on a fence wait() was never called on; a thread that
\* panicked drops what it owns while unwinding
DropFenceInline(t, i) ==
    /\ pc[t] \in {"idle", "panicked"}
    /\ fence[i].state = "held"
    /\ fence[i].owner = t
    /\ devlog' = [devlog EXCEPT ![i] = Append(@, [op |-> "destroy", by |-> t])]
    /\ fence' = [fence EXCEPT ![i].state = "destroyed", ![i].owner = NoThread]
    /\ UNCHANGED <<deadline, version, extension, pc, cur, chan, queue, ex, nextId, newCalls,
                   requests, proto, outcome, noneRets, dropSubs>>

DropFence(t, i) ==
    /\ pc[t] \in {"idle", "panicked"}
    /\ fence[i].state = "held"
    /\ fence[i].owner = t
    /\ LET subs == DropSubmission(fence[i].slot) IN
        /\ queue' = Exec(queue, subs)
        /\ dropSubs' = [dropSubs EXCEPT ![i] = @ + Len(subs)]
    /\ fence' = [fence EXCEPT ![i].state = "destroyed", ![i].owner = NoThread]
    /\ UNCHANGED <<deadline, version, extension, pc, cur, chan, ex, nextId, newCalls, requests,
                   devlog, proto, outcome, noneRets>>

\* the thread that created the SyncFence hands it to another thread
Transfer(t, i, u) ==
    /\ pc[t] = "idle"
    /\ u # t
    /\ pc[u] # "panicked"
    /\ fence[i].state = "held"
    /\ fence[i].owner = t
    /\ ~fence[i].moved
    /\ fence' = [fence EXCEPT ![i].owner = u, ![i].moved = TRUE]
    /\ UNCHANGED <<deadline, version, extension, pc, cur, chan, queue, ex, nextId, newCalls,
                   requests, devlog, proto, outcome, noneRets, dropSubs>>

\* ------------------------------------------------------------- the executor

\* what is left of the running closure once its first step is done
Advance(c) == IF Len(c.steps) = 1 THEN Idle ELSE [c EXCEPT !.steps = Tail(c.steps)]

Call(op) == [op |-> op, by |-> Executor]

ExecDequeue ==
    /\ ex.kind = "idle"
    /\ queue # <<>>
    /\ ex' = Head(queue)
    /\ queue' = Tail(queue)
    /\ UNCHANGED <<deadline, version, extension, pc, cur, chan, nextId, newCalls, requests,
                   devlog, proto, fence, outcome, noneRets, dropSubs>>

\* SyncFencePrototype::new_if_supported(&mut ctxt) inside a closure
ExecNew ==
    /\ ex.kind # "idle"
    /\ Head(ex.steps) = "new"
    /\ LET r == ProtoNewIfSupported(version, extension, nextId) IN
        /\ newCalls' = newCalls + 1
        /\ nextId' = nextId + r.issued
        /\ IF r.slot = None
           THEN /\ UNCHANGED <<devlog, proto>>
                /\ ex' = IF ex.kind = "inplace" THEN Idle ELSE Advance(ex)
           ELSE /\ devlog' = [devlog EXCEPT ![r.slot] = Append(@, Call("create"))]
                /\ proto' = [proto EXCEPT ![r.slot] = [state |-> "present", via |-> ex.kind]]
                /\ ex' = Advance([ex EXCEPT !.id = r.slot])
    /\ UNCHANGED <<deadline, version, extension, pc, cur, chan, queue, requests, fence,
                   outcome, noneRets, dropSubs>>

\* ctxt.gl.ClientWaitSync(sync, SYNC_FLUSH_COMMANDS_BIT, one year)
ExecPoll ==
    /\ ex.kind # "idle"
    /\ Head(ex.steps) = "poll"
    /\ \E r \in ResultCodes : ex' = Advance([ex EXCEPT !.result = r])
    /\ devlog' = [devlog EXCEPT ![ex.id] = Append(@, Call("poll"))]
    /\ proto' = IF ex.kind = "inplace"
                THEN [proto EXCEPT ![ex.id].state = "taken"]
                ELSE proto
    /\ deadline' = [deadline EXCEPT ![ex.id] = PollDeadline(ex.kind)]
    /\ UNCHANGED <<version, extension, pc, cur, chan, queue, nextId, newCalls,
                   requests, fence, outcome, noneRets, dropSubs>>

\* tx.send(..).unwrap(): the value is moved into the channel
ExecSend ==
    /\ ex.kind # "idle"
    /\ Head(ex.steps) = "send"
    /\ chan' = [chan EXCEPT ![ex.from] = Append(@, [slot |-> ex.id, result |-> ex.result])]
    /\ ex' = Advance([ex EXCEPT !.result = Unset])
    /\ UNCHANGED <<deadline, version, extension, pc, cur, queue, nextId, newCalls, requests,
                   devlog, proto, fence, outcome, noneRets, dropSubs>>

\* ctxt.gl.DeleteSync(sync)
ExecDelete ==
    /\ ex.kind # "idle"
    /\ Head(ex.steps) = "delete"
    /\ devlog' = [devlog EXCEPT ![ex.id] = Append(@, Call("destroy"))]
    /\ proto' = IF ex.kind = "inplace"
                THEN [proto EXCEPT ![ex.id].state = ProtoDrop(None)]
                ELSE proto
    /\ ex' = Advance(ex)
    /\ UNCHANGED <<deadline, version, extension, pc, cur, chan, queue, nextId, newCalls,
                   requests, fence, outcome, noneRets, dropSubs>>

ExecNext == ExecDequeue \/ ExecNew \/ ExecPoll \/ ExecSend \/ ExecDelete

Next ==
    \/ \E t \in Threads : NewIfSupported(t)
    \/ \E t \in Threads : NewRecv(t)
    \/ \E t \in Threads : ProtoRequest(t)
    \/ \E t \in Threads : ProtoRecv(t)
    \/ \E t \in Threads : WaitAndDropRequest(t)
    \/ \E t \in Threads, i \in Ids : Wait(t, i)
    \/ \E t \in Threads : WaitRecv(t)
    \/ \E t \in Threads, i \in Ids : DropFence(t, i)
    \/ \E t \in Threads, i \in Ids, u \in Threads : Transfer(t, i, u)
    \/ ExecDequeue
    \/ ExecNew
    \/ ExecPoll
    \/ ExecSend
    \/ ExecDelete

Spec == Init /\ [][Next]_vars

\* SyncFence::new (feature gl_sync), up to the recv() of the
\* new_if_supported it calls
SyncFenceNew(t) ==
    /\ pc[t] = "idle"
    /\ requests < MaxFences
    /\ queue' = Exec(queue, <<Closure("create", t, None, CreateSteps)>>)
    /\ pc' = [pc EXCEPT ![t] = "unwrap_recv"]
    /\ requests' = requests + 1
    /\ UNCHANGED <<deadline, version, extension, cur, chan, ex, nextId, newCalls, devlog,
                   proto, fence, outcome, noneRets, dropSubs>>

\* SyncFence::new from that recv() on: new_if_supported returns, then unwrap()
SyncFenceNewRecv(t) ==
    /\ pc[t] = "unwrap_recv"
    /\ chan[t] # <<>>
    /\ LET m == Head(chan[t]) IN
        /\ chan' = [chan EXCEPT ![t] = Tail(chan[t])]
        /\ IF m.slot = None
           THEN /\ noneRets' = noneRets + 1
                /\ UNCHANGED <<proto, fence>>
           ELSE /\ UNCHANGED noneRets
                /\ IntoSyncFence(t, m.slot)
        /\ pc' = [pc EXCEPT ![t] = IF Unwrap(m.slot) = "ok" THEN "idle" ELSE "panicked"]
    /\ UNCHANGED <<deadline, version, extension, cur, queue, ex, nextId, newCalls, requests,
                   devlog, outcome, dropSubs>>

\* code running on the commands queue that builds a prototype with
\* SyncFencePrototype::new and consumes it in place with wait_and_drop
ProtoNewRequest(t) ==
    /\ pc[t] = "idle"
    /\ requests < MaxFences
    /\ queue' = Exec(queue, <<Closure("inplace", NoThread, None, <<"new_unchecked">> \o WaitAndDropSteps)>>)
    /\ requests' = requests + 1
    /\ UNCHANGED <<deadline, version, extension, pc, cur, chan, ex, nextId, newCalls, devlog,
                   proto, fence, outcome, noneRets, dropSubs>>

\* SyncFencePrototype::new(&mut ctxt) inside a closure
ExecNewUnchecked ==
    /\ ex.kind # "idle"
    /\ Head(ex.steps) = "new_unchecked"
    /\ LET r == ProtoNew(version, extension, nextId) IN
        /\ newCalls' = newCalls + 1
        /\ nextId' = nextId + r.issued
        /\ IF r.slot = None
           THEN /\ UNCHANGED <<devlog, proto>>
                /\ ex' = Idle
           ELSE /\ devlog' = [devlog EXCEPT ![r.slot] = Append(@, Call("create"))]
                /\ proto' = [proto EXCEPT ![r.slot] = [state |-> "present", via |-> "unchecked"]]
                /\ ex' = Advance([ex EXCEPT !.id = r.slot])
    /\ UNCHANGED <<deadline, version, extension, pc, cur, chan, queue, requests, fence,
                   outcome, noneRets, dropSubs>>

\* creation alone, on every context of GateContexts
GateInit ==
    /\ \E c \in GateContexts : version = c[1] /\ extension = c[2]
    /\ pc = [t \in Threads |-> "idle"]
    /\ cur = [t \in Threads |-> None]
    /\ chan = [t \in Threads |-> <<>>]
    /\ queue = <<>>
    /\ ex = Idle
    /\ nextId = 0
    /\ newCalls = 0
    /\ requests = 0
    /\ devlog = [i \in Ids |-> <<>>]
    /\ proto = [i \in Ids |-> [state |-> "unborn", via |-> "none"]]
    /\ fence = [i \in Ids |-> [state |-> "unborn", owner |-> NoThread, slot |-> None, moved |-> FALSE]]
    /\ outcome = [i \in Ids |-> "none"]
    /\ noneRets = 0
    /\ dropSubs = [i \in Ids |-> 0]
    /\ deadline = [i \in Ids |-> <<>>]

GateNext ==
    \/ \E t \in Threads : NewIfSupported(t)
    \/ \E t \in Threads : NewRecv(t)
    \/ ExecDequeue
    \/ ExecNew
    \/ ExecSend

GateSpec == GateInit /\ [][GateNext]_vars

\* the creation variants of feature gl_sync, on every context of GateContexts
NewNext ==
    \/ \E t \in Threads : SyncFenceNew(t)
    \/ \E t \in Threads : SyncFenceNewRecv(t)
    \/ \E t \in Threads : ProtoNewRequest(t)
    \/ ExecDequeue
    \/ ExecNew
    \/ ExecNewUnchecked
    \/ ExecPoll
    \/ ExecSend
    \/ ExecDelete

NewSpec == GateInit /\ [][NewNext]_vars

\* the executor keeps running what is queued, and a thread blocked in recv()
\* wakes up once its channel holds a value
FairSpec ==
    /\ Spec
    /\ WF_vars(ExecNext)
    /\ \A t \in Threads : WF_vars(NewRecv(t) \/ ProtoRecv(t) \/ WaitRecv(t))

\* ------------------------------------------------------------------ helpers
Count(log, op) == Cardinality({k \in 1..Len(log) : log[k].op = op})

OnExecutor(log) == \A k \in 1..Len(log) : log[k].by = Executor

\* the steps still to run, queued or running, of closures that hold id i
PendingSteps(i, step) ==
    Cardinality({k \in 1..Len(queue) :
                    queue[k].id = i /\ \E j \in 1..Len(queue[k].steps) : queue[k].steps[j] = step})
    + (IF ex.id = i THEN Cardinality({j \in 1..Len(ex.steps) : ex.steps[j] = step}) ELSE 0)

Waited(i) == fence[i].state = "waiting" \/ outcome[i] # "none"

SuccessCodes == {ALREADY_SIGNALED, CONDITION_SATISFIED}

VersionBelowMin == version[1] < 3 \/ (version[1] = 3 /\ version[2] < 2)

TypeOK ==
    /\ pc \in [Threads -> {"idle", "new_recv", "unwrap_recv", "proto_recv", "wait_recv", "panicked"}]
    /\ cur \in [Threads -> Ids \cup {None}]
    /\ nextId \in 0..MaxFences
    /\ requests \in 0..MaxFences
    /\ \A t \in Threads : Len(chan[t]) <= 1
    /\ \A i \in Ids : fence[i].state \in {"unborn", "held", "waiting", "destroyed"}
    /\ \A i \in Ids : proto[i].state \in {"unborn", "present", "taken", "consumed", "assert_failed"}

\* -------------------------------------------------------------------- claims

\* C1: SyncFence::wait never returns (or panics) before the executor has run
\* the poll on that fence's id and sent back its result code: a reply a thread
\* blocked in wait can read is a result code produced by a completed poll on
\* the executor, and so is every finished wait's.
C1_WaitAfterPoll ==
    /\ \A t \in Threads :
        (pc[t] = "wait_recv" /\ chan[t] # <<>>) =>
            /\ Head(chan[t]).result \in ResultCodes
            /\ Count(devlog[cur[t]], "poll") = 1
            /\ OnExecutor(devlog[cur[t]])
    /\ \A i \in Ids :
        outcome[i] # "none" => Count(devlog[i], "poll") = 1 /\ OnExecutor(devlog[i])

C1_Witness == \E i \in Ids : outcome[i] = "ok" /\ Count(devlog[i], "poll") = 1

\* C2: on a context below version 3.2 and without the sync extension, creation
\* returns None, builds no prototype and no fence, and makes no backend call.
C2_UnsupportedNoCall ==
    (VersionBelowMin /\ ~extension) =>
        /\ nextId = 0
        /\ \A i \in Ids : devlog[i] = <<>> /\ proto[i].state = "unborn" /\ fence[i].state = "unborn"
        /\ \A t \in Threads : \A k \in 1..Len(chan[t]) : chan[t][k].slot = None
        /\ noneRets + Cardinality({t \in Threads : pc[t] = "new_recv"}) = requests

C2_Witness == VersionBelowMin /\ ~extension /\ noneRets = MaxFences

\* C3: on a context at or above 3.2, or with the sync extension, every
\* creation makes exactly one FenceSync call and returns a live prototype
\* wrapping the id that call returned; None is returned only when the version
\* is below 3.2 and the extension is absent.
C3_SupportedOneCreate ==
    /\ (~VersionBelowMin \/ extension) =>
        /\ nextId = newCalls
        /\ noneRets = 0
        /\ \A i \in 1..nextId :
            /\ devlog[i] = <<Call("create")>>
            /\ proto[i].state \in {"present", "consumed"}
            /\ proto[i].state = "consumed" <=> fence[i].state = "held"
        /\ \A t \in Threads : \A k \in 1..Len(chan[t]) :
            /\ chan[t][k].slot \in 1..nextId
            /\ proto[chan[t][k].slot].state = "present"
    /\ noneRets > 0 => (VersionBelowMin /\ ~extension)

C3_Witness ==
    /\ VersionBelowMin /\ extension
    /\ \E t \in Threads : chan[t] # <<>> /\ proto[Head(chan[t]).slot].state = "present"

\* C4: every SyncFence::wait makes exactly one poll and then exactly one
\* destroy on its id, both on the executor, and never polls again.
C4_WaitOnePollOneDestroy ==
    \A i \in Ids : Waited(i) =>
        /\ OnExecutor(devlog[i])
        /\ Count(devlog[i], "poll") + PendingSteps(i, "poll") = 1
        /\ Count(devlog[i], "destroy") + PendingSteps(i, "delete") = 1
        /\ Count(devlog[i], "poll") = 0 => Count(devlog[i], "destroy") = 0
        /\ (PendingSteps(i, "poll") = 0 /\ PendingSteps(i, "delete") = 0) =>
                devlog[i] = <<Call("create"), Call("poll"), Call("destroy")>>

C4_Witness ==
    \E i \in Ids : /\ outcome[i] = "ok"
                   /\ devlog[i] = <<Call("create"), Call("poll"), Call("destroy")>>

\* C5: whatever the poll returned, the object of a waited fence is destroyed
\* exactly once: when wait has panicked, the destroy either has been made or
\* is the step the executor is about to run, and nothing else will destroy it.
C5_DestroyedOnFailure ==
    \A i \in Ids : outcome[i] = "panic" =>
        /\ Count(devlog[i], "destroy") <= 1
        /\ Count(devlog[i], "destroy") = 0 => (ex.kind = "wait" /\ ex.id = i /\ ex.steps = <<"delete">>)
        /\ Count(devlog[i], "destroy") = 1 => PendingSteps(i, "delete") = 0
        /\ dropSubs[i] = 0

C5_Witness ==
    \E i \in Ids : /\ outcome[i] = "panic"
                   /\ Count(devlog[i], "destroy") = 1
                   /\ ex.kind = "idle" /\ queue = <<>>

\* C6: SyncFence::wait returns normally if and only if the code the poll
\* reported is ALREADY_SIGNALED or CONDITION_SATISFIED; with any other code it
\* panics on the calling thread.  The reply a waiting thread reads is the code
\* the poll returned, and the step that reads it ends in "ok" exactly for the
\* two success codes.
C6_ReplyIsPollResult ==
    /\ (ex.kind = "wait" /\ ex.steps # <<>> /\ Head(ex.steps) = "send") => ex.result \in ResultCodes
    /\ \A t \in Threads : (pc[t] = "wait_recv" /\ chan[t] # <<>>) => Head(chan[t]).result \in ResultCodes

C6_WaitReturnStep ==
    \A t \in Threads :
        (pc[t] = "wait_recv" /\ pc'[t] # "wait_recv") =>
            /\ pc'[t] \in {"idle", "panicked"}
            /\ outcome'[cur[t]] = (IF pc'[t] = "idle" THEN "ok" ELSE "panic")
            /\ pc'[t] = "idle" <=> Head(chan[t]).result \in SuccessCodes

\* C6, as checked: the reply is the poll's code in every state, and every step
\* that ends a wait ends it in "ok" exactly for the two success codes
C6_SuccessIffSignaled == []C6_ReplyIsPollResult /\ [][C6_WaitReturnStep]_vars

C6_Witness ==
    \E t \in Threads, i \in Ids :
        pc[t] = "panicked" /\ outcome[i] = "panic" /\ Count(devlog[i], "poll") = 1

\* C7: every id a creation call returned is passed to destroy at most once,
\* counting the destroys still queued; the id slot of a SyncFence goes from
\* present to absent at most once; the destructor of a spent SyncFence submits
\* nothing.
C7_AtMostOneDestroy ==
    \A i \in Ids :
        /\ Count(devlog[i], "destroy") + PendingSteps(i, "delete") <= 1
        /\ Waited(i) => (fence[i].slot = None /\ dropSubs[i] = 0)
        /\ dropSubs[i] <= 1
        /\ (fence[i].state = "unborn" /\ proto[i].via # "inplace") => Count(devlog[i], "destroy") = 0

C7_SlotStep ==
    \A i \in Ids :
        /\ (fence[i].state # "unborn" /\ fence[i].slot = None) => fence'[i].slot = None
        /\ fence[i].state = "destroyed" => fence'[i] = fence[i]

\* C7, as checked: at most one destroy per id in every state, and no step
\* refills an emptied slot or touches a destroyed fence
C7_MovedNeverDuplicated == []C7_AtMostOneDestroy /\ [][C7_SlotStep]_vars

C7_Witness ==
    \E i, j \in Ids :
        /\ i # j
        /\ fence[i].state = "destroyed" /\ outcome[i] = "panic" /\ Count(devlog[i], "destroy") = 1
        /\ fence[j].state = "destroyed" /\ outcome[j] = "none" /\ Count(devlog[j], "destroy") = 1

\* C8: a SyncFencePrototype destroyed with its id still present fails its
\* assertion: a prototype never ends silently unless it was turned into a
\* SyncFence or waited-and-dropped, and the id of a prototype whose assertion
\* failed is never passed to destroy.
C8_LeakedPrototypeAsserts ==
    \A i \in Ids :
        /\ proto[i].state = "consumed" => (fence[i].state # "unborn" \/ proto[i].via = "inplace")
        /\ proto[i].state = "assert_failed" =>
            /\ fence[i].state = "unborn"
            /\ devlog[i] = <<Call("create")>>
            /\ PendingSteps(i, "delete") = 0
            /\ \E t \in Threads : pc[t] = "panicked"

C8_Witness == \E i \in Ids : proto[i].state = "assert_failed" /\ proto[i].via = "proto"

\* C9: dropping a SyncFence that was never waited on submits exactly one
\* closure, which makes exactly one destroy and no poll on the executor, and
\* the dropping thread goes on without waiting for it: the step that drops
\* only appends to the queue and leaves the thread where it was.
C9_DroppedUnwaited(i) == fence[i].state = "destroyed" /\ outcome[i] = "none"

C9_OneDestroyNoPoll ==
    \A i \in Ids : C9_DroppedUnwaited(i) =>
        /\ dropSubs[i] = 1
        /\ Count(devlog[i], "poll") + PendingSteps(i, "poll") = 0
        /\ Count(devlog[i], "destroy") + PendingSteps(i, "delete") = 1
        /\ OnExecutor(devlog[i])

C9_DropStep ==
    \A i \in Ids :
        (fence[i].state = "held" /\ fence'[i].state = "destroyed") =>
            /\ pc' = pc
            /\ chan' = chan
            /\ devlog' = devlog
            /\ ex' = ex
            /\ Len(queue') = Len(queue) + 1

\* C9, as checked: one destroy and no poll for a fence dropped unwaited, and
\* the dropping step only queues the closure
C9_DropIsFireAndForget == []C9_OneDestroyNoPoll /\ [][C9_DropStep]_vars

C9_Witness ==
    \E i \in Ids :
        /\ C9_DroppedUnwaited(i)
        /\ \E k \in 1..Len(queue) : queue[k].kind = "drop" /\ queue[k].id = i
        /\ \A t \in Threads : pc[t] = "idle"

\* C10: a SyncFence created by one thread and waited on by another: under a
\* fair executor the wait ends, and it ends in success when the poll returned
\* a success code; no thread is ever blocked in recv() with nothing left that
\* will send to it (no deadlock on the single executor queue).
C10_Answerable(t) ==
    \/ chan[t] # <<>>
    \/ ex.from = t /\ \E j \in 1..Len(ex.steps) : ex.steps[j] = "send"
    \/ \E k \in 1..Len(queue) :
          queue[k].from = t /\ \E j \in 1..Len(queue[k].steps) : queue[k].steps[j] = "send"

C10_NoDeadlock ==
    \A t \in Threads : pc[t] \in {"new_recv", "proto_recv", "wait_recv"} => C10_Answerable(t)

\* C10, as checked under FairSpec: no blocked thread is unanswerable, every
\* wait ends, and a wait whose reply is a success code ends in "ok"
C10_HandedOffWaitCompletes ==
    /\ [] C10_NoDeadlock
    /\ \A t \in Threads, i \in Ids :
        /\ (pc[t] = "wait_recv" /\ cur[t] = i) ~> (outcome[i] # "none" /\ pc[t] # "wait_recv")
        /\ (pc[t] = "wait_recv" /\ cur[t] = i /\ chan[t] # <<>> /\ Head(chan[t]).result \in SuccessCodes)
              ~> (outcome[i] = "ok")

C10_Witness == \E i \in Ids : fence[i].moved /\ outcome[i] = "ok" /\ fence[i].state = "destroyed"

\* C11 as stated: both unconditional variants (SyncFence::new and
\* SyncFencePrototype::new) make the creation call on every context and never
\* end in the "unsupported" result.
C11_NewAlwaysCreates == nextId = newCalls /\ noneRets = 0

\* prototype constructor calls that ended in None and whose result is sent,
\* about to be sent, or already returned
C11_NoneResults ==
    noneRets
    + Cardinality({t \in Threads : \E k \in 1..Len(chan[t]) : chan[t][k].slot = None})
    + (IF ex.kind = "create" /\ ex.steps = <<"send">> /\ ex.id = None THEN 1 ELSE 0)

\* C11 (amended): SyncFencePrototype::new makes the FenceSync call on every
\* context, with no capability check.  SyncFence::new does not skip the check:
\* it goes through new_if_supported and unwraps, so on a context below 3.2
\* without the extension it makes no backend call, builds no SyncFence and
\* panics.
C11_OnlyPrototypeNewIsUngated ==
    /\ nextId + C11_NoneResults = newCalls
    /\ C11_NoneResults > 0 => (VersionBelowMin /\ ~extension)
    /\ (VersionBelowMin /\ ~extension) =>
        /\ \A i \in 1..nextId : proto[i].via = "unchecked" /\ fence[i].state = "unborn"
        /\ noneRets = Cardinality({t \in Threads : pc[t] = "panicked"})
    /\ \A i \in 1..nextId : devlog[i] # <<>> /\ devlog[i][1] = Call("create")

C11_Witness ==
    /\ VersionBelowMin /\ ~extension
    /\ \E i \in Ids : proto[i].via = "unchecked"
    /\ \E t \in Threads : pc[t] = "panicked"

\* C12: every backend call reached through SyncFence (FenceSync in
\* new_if_supported, ClientWaitSync and DeleteSync in wait, DeleteSync in the
\* destructor) is made by the executor while it runs a submitted closure; a
\* step of an application thread never makes one.
C12_CallsByExecutor == \A i \in Ids : OnExecutor(devlog[i])

C12_CallStep ==
    devlog' # devlog =>
        /\ ex.kind # "idle"
        /\ ex' # ex
        /\ pc' = pc
        /\ queue' = queue
        /\ chan' = chan
        /\ fence' = fence

\* C12, as checked: the log names only the executor, and every step that adds
\* to it is a step of the running closure that moves no application thread
C12_OnlyExecutorTouchesDevice == []C12_CallsByExecutor /\ [][C12_CallStep]_vars

C12_Witness ==
    \E i, j \in Ids :
        /\ i # j
        /\ Len(devlog[i]) = 3 /\ outcome[i] # "none"
        /\ Len(devlog[j]) = 2 /\ fence[j].state = "destroyed" /\ outcome[j] = "none"

\* C13 as stated: a prototype built by the closure of
\* SyncFence::new_if_supported has its id present only while that closure is
\* still running.
C13_PromotedInsideClosure ==
    \A i \in Ids :
        (proto[i].via = "create" /\ proto[i].state = "present") => (ex.kind = "create" /\ ex.id = i)

\* C13 (amended): the closure sends the prototype to the caller with its id
\* still present and may return before it is promoted; the prototype is then
\* in the channel of the thread blocked in new_if_supported, which promotes it
\* with into_sync_fence as soon as recv() returns, so its destructor never
\* runs on a present id.
C13_PromotedByCaller ==
    \A i \in Ids : proto[i].via = "create" =>
        /\ proto[i].state \in {"present", "consumed"}
        /\ proto[i].state = "present" =>
            \/ ex.kind = "create" /\ ex.id = i /\ ex.steps = <<"send">>
            \/ \E t \in Threads : /\ pc[t] = "new_recv"
                                  /\ Len(chan[t]) = 1
                                  /\ chan[t][1].slot = i
        /\ proto[i].state = "consumed" => fence[i].state # "unborn"

C13_Witness ==
    \E i \in Ids, t \in Threads :
        /\ proto[i].via = "create" /\ proto[i].state = "present"
        /\ ex.kind = "idle"
        /\ pc[t] = "new_recv" /\ chan[t] # <<>> /\ Head(chan[t]).slot = i

\* C14: SyncFencePrototype::wait_and_drop propagates a backend wait fault:
\* when its poll returned a code other than ALREADY_SIGNALED and
\* CONDITION_SATISFIED, the call does not complete as a successful wait (the
\* prototype is not consumed normally with the closure simply going on).
C14_FaultStep ==
    (ex.kind = "inplace" /\ ex.steps = <<"delete">> /\ ex.result \notin SuccessCodes) =>
        /\ proto'[ex.id].state # "consumed"
        /\ ex' # Idle

C14_WaitAndDropSurfacesFault == [][C14_FaultStep]_vars

\* C15: a prototype is consumed by exactly one of into_sync_fence and
\* wait_and_drop, after either one its id is absent and its destructor's
\* assertion holds, and no SyncFence::new_if_supported, on any context, reaches
\* the prototype's destructor with the id present.
C15_Promoted(i) == fence[i].state # "unborn"

C15_WaitedInPlace(i) == proto[i].via = "inplace" /\ proto[i].state \in {"taken", "consumed"}

C15_ConsumedExactlyOnce ==
    /\ \A i \in Ids :
        /\ proto[i].via = "create" => proto[i].state # "assert_failed"
        /\ C15_Promoted(i) => (proto[i].state = "consumed" /\ ~C15_WaitedInPlace(i))
        /\ C15_WaitedInPlace(i) =>
            /\ ~C15_Promoted(i)
            /\ proto[i].state = "taken" <=> (ex.kind = "inplace" /\ ex.id = i /\ ex.steps = <<"delete">>)
        /\ proto[i].state = "consumed" => (C15_Promoted(i) \/ C15_WaitedInPlace(i))
        /\ (proto[i].via = "inplace" /\ proto[i].state = "present") =>
                (ex.kind = "inplace" /\ ex.id = i /\ ex.steps = WaitAndDropSteps)
    /\ (VersionBelowMin /\ ~extension) => \A i \in Ids : proto[i].state = "unborn"

C15_Witness ==
    \E i, j \in Ids :
        /\ proto[i].via = "create" /\ proto[i].state = "consumed" /\ C15_Promoted(i)
        /\ proto[j].via = "inplace" /\ proto[j].state = "consumed"

\* C16: on every id the backend calls come in the order create, at most one
\* poll, destroy: no poll and no destroy on an id not yet created or already
\* destroyed, under every interleaving of the submitting threads.
C16_Orders ==
    {<<>>,
     <<Call("create")>>,
     <<Call("create"), Call("poll")>>,
     <<Call("create"), Call("destroy")>>,
     <<Call("create"), Call("poll"), Call("destroy")>>}

C16_CreatePollDestroy ==
    \A i \in Ids :
        /\ devlog[i] \in C16_Orders
        /\ i > nextId => devlog[i] = <<>>

C16_Witness ==
    \E i, j \in Ids :
        /\ i < j
        /\ devlog[j] = <<Call("create"), Call("poll"), Call("destroy")>>
        /\ devlog[i] = <<Call("create"), Call("poll")>>

\* C17: no marker is leaked: under a fair executor, the id of every SyncFence
\* that is waited on or dropped is eventually passed to destroy, and never
\* more than once.
C17_Finalized(i) == fence[i].state \in {"waiting", "destroyed"}

C17_EventuallyDestroyedOnce ==
    /\ [](\A i \in Ids : Count(devlog[i], "destroy") <= 1)
    /\ \A i \in Ids : C17_Finalized(i) ~> (Count(devlog[i], "destroy") = 1)

C17_Witness ==
    /\ nextId = MaxFences
    /\ \A i \in Ids : fence[i].state = "destroyed" /\ Count(devlog[i], "destroy") = 1

\* C18: the closure of SyncFence::wait sends the result before it destroys
\* the marker: whenever the destroy of a waited id has been made, the reply
\* was already sent, so wait can return (or panic) while the marker is not yet
\* destroyed.
C18_ReplySent(i) ==
    \/ outcome[i] # "none"
    \/ \E t \in Threads : pc[t] = "wait_recv" /\ cur[t] = i /\ chan[t] # <<>>

C18_SendBeforeDestroy ==
    \A i \in Ids :
        /\ (Waited(i) /\ Count(devlog[i], "destroy") = 1) => C18_ReplySent(i)
        /\ (Waited(i) /\ C18_ReplySent(i)) => Count(devlog[i], "poll") = 1

C18_Witness ==
    \E i \in Ids :
        /\ outcome[i] # "none"
        /\ fence[i].state = "destroyed"
        /\ Count(devlog[i], "destroy") = 0

\* C19: every poll, in SyncFence::wait and in wait_and_drop, is given the same
\* timeout 365 * 24 * 3600 * 1000 * 1000 * 1000 = 31,536,000,000,000,000 ns,
\* which is below 2^63 and so is exact in the 64-bit unsigned parameter: the
\* product computed modulo 2^64 equals the product computed without reduction.
C19_OneYearNs == <<0, 0, 0, 0, 536, 31, 0, 0>>

RECURSIVE C19_ExactProduct(_, _)
C19_ExactProduct(fs, k) == IF k = 0 THEN U64One ELSE MulSmall(C19_ExactProduct(fs, k - 1), fs[k])

C19_WaitExact == C19_ExactProduct(WaitDeadlineFactors, Len(WaitDeadlineFactors))

C19_WaitAndDropExact == C19_ExactProduct(WaitAndDropDeadlineFactors, Len(WaitAndDropDeadlineFactors))

C19_DeadlineIsOneYear ==
    \A i \in Ids :
        /\ Count(devlog[i], "poll") > 0 <=> deadline[i] # <<>>
        /\ deadline[i] # <<>> =>
            /\ deadline[i] = C19_OneYearNs
            /\ U64Less(deadline[i], Two63)
            /\ deadline[i] = C19_WaitExact
            /\ deadline[i] = C19_WaitAndDropExact

C19_Witness ==
    \E i, j \in Ids :
        /\ proto[i].via = "inplace" /\ deadline[i] # <<>>
        /\ proto[j].via = "create" /\ deadline[j] # <<>>

====
